---- MODULE Spec2Model ----
(***************************************************************************)
(* Model of porcentagem_cespe: the hierarchy validator                     *)
(* (src/porcentagem_cespe/validador.py) and the data model it rests on     *)
(* (src/porcentagem_cespe/models.py).                                      *)
(*                                                                         *)
(* Strings are sequences of one-character strings, so that count, split,   *)
(* startswith and slicing are computed the way the Python code computes    *)
(* them.  An Optional value is a sequence of length at most one: None is   *)
(* <<>> and a present value x is <<x>>.                                    *)
(***************************************************************************)
EXTENDS Integers, Sequences, FiniteSets, TLC

VARIABLES
    arquivo,         \* data rows of the CSV file on disk (after the header)
    topicos,         \* ValidadorHierarquia._topicos
    total_geral,     \* ValidadorHierarquia._total_geral (Optional Topico)
    chamada,         \* the last call made on the validator and what it returned
    alg,             \* a Topico pair and the values its properties returned
    grav,            \* an Inconsistencia's inputs and the gravidade it returned
    analisador,      \* AnalisadorDados: which list _topicos refers to, _total_geral
    obtido           \* the list a client got from the topicos property (Optional)

vars == <<arquivo, topicos, total_geral, chamada, alg, grav, analisador, obtido>>

(***************************************************************************)
(* Bounds                                                                  *)
(***************************************************************************)
MaxHierLen == 5      \* longest path, in characters, given to the Topico properties
MaxLinhas == 3       \* most data rows in the CSV file
MaxQuantidade == 100 \* largest pai.quantidade given to gravidade
MaxDiferenca == 12   \* largest |diferenca| given to gravidade

None == <<>>
Some(x) == <<x>>

HierChars == {"1", "."}

\* every string over HierChars of at most n characters
Textos(n) == UNION {[1..k -> HierChars] : k \in 0..n}

(***************************************************************************)
(* Python string primitives used by models.py                              *)
(***************************************************************************)
RECURSIVE count(_, _)
count(s, c) ==
    IF s = <<>> THEN 0
    ELSE (IF Head(s) = c THEN 1 ELSE 0) + count(Tail(s), c)

contains(s, c) == \E i \in 1..Len(s) : s[i] = c

startswith(s, p) ==
    /\ Len(p) <= Len(s)
    /\ SubSeq(s, 1, Len(p)) = p

\* s[n:]
slice_from(s, n) == SubSeq(s, n + 1, Len(s))

\* s.split('.') : the segments between the dots, always at least one
RECURSIVE split_acc(_, _, _)
split_acc(s, cur, acc) ==
    IF s = <<>> THEN Append(acc, cur)
    ELSE IF Head(s) = "." THEN split_acc(Tail(s), <<>>, Append(acc, cur))
    ELSE split_acc(Tail(s), Append(cur, Head(s)), acc)

split(s) == split_acc(s, <<>>, <<>>)

\* '.'.join(parts)
RECURSIVE join(_)
join(parts) ==
    IF parts = <<>> THEN <<>>
    ELSE IF Len(parts) = 1 THEN parts[1]
    ELSE parts[1] \o <<".">> \o join(Tail(parts))

(***************************************************************************)
(* Topico                                                                  *)
(***************************************************************************)
\* a float that is a decimal number, kept exactly as the reduced ratio num/den
RECURSIVE mdc(_, _)
mdc(a, b) == IF b = 0 THEN a ELSE mdc(b, a % b)

Racional(n, d) ==
    LET a == IF n < 0 THEN -n ELSE n
        g == mdc(a, d)
    IN  [num |-> n \div g, den |-> d \div g]

Zero == Racional(0, 1)

Topico(h, q, pct, l) ==
    [hierarquia |-> h, quantidade |-> q, porcentagem |-> pct, linha_csv |-> l]

\* nivel without the empty-path case
nivel_m(self) == count(self.hierarquia, ".") + 1

nivel(self) ==
    IF self.hierarquia = <<>> THEN 0
    ELSE count(self.hierarquia, ".") + 1

\* pai dropping the first segment instead of the last
pai_m(self) ==
    IF self.hierarquia = <<>> THEN None
    ELSE IF ~contains(self.hierarquia, ".") THEN Some(<<>>)
    ELSE Some(join(Tail(split(self.hierarquia))))

pai(self) ==
    IF self.hierarquia = <<>> THEN None
    ELSE IF ~contains(self.hierarquia, ".") THEN Some(<<>>)
    ELSE LET partes == split(self.hierarquia)
         IN  Some(join(SubSeq(partes, 1, Len(partes) - 1)))

\* eh_filho_de without the test that the rest holds no dot
eh_filho_de_m(self, outro) ==
    IF outro.hierarquia = <<>> THEN nivel(self) = 1
    ELSE startswith(self.hierarquia, outro.hierarquia \o <<".">>)

\* eh_filho_de with the prefix taken without its closing dot
eh_filho_de_m2(self, outro) ==
    IF outro.hierarquia = <<>> THEN nivel(self) = 1
    ELSE LET prefixo == outro.hierarquia
         IN  IF ~startswith(self.hierarquia, prefixo) THEN FALSE
             ELSE LET resto == slice_from(self.hierarquia, Len(prefixo))
                  IN  ~contains(resto, ".")

eh_filho_de(self, outro) ==
    IF outro.hierarquia = <<>> THEN nivel(self) = 1
    ELSE LET prefixo == outro.hierarquia \o <<".">>
         IN  IF ~startswith(self.hierarquia, prefixo) THEN FALSE
             ELSE LET resto == slice_from(self.hierarquia, Len(prefixo))
                  IN  ~contains(resto, ".")

(***************************************************************************)
(* Inconsistencia                                                          *)
(***************************************************************************)
Inconsistencia(tipo, p, soma, dif, fs) ==
    [tipo |-> tipo, pai |-> p, soma_filhos |-> soma, diferenca |-> dif, filhos |-> fs]

abs(x) == IF x < 0 THEN -x ELSE x

\* pct_erro is kept as the exact ratio num/den of the two integers the code
\* divides; for the integers within the bounds the float the code computes
\* compares with 10, 5 and 1 exactly as this ratio does
pct_erro(self) ==
    IF self.pai.quantidade # 0
    THEN [num |-> abs(self.diferenca) * 100, den |-> self.pai.quantidade]
    ELSE [num |-> 0, den |-> 1]

\* r > t, for a ratio r and an integer t
maior(r, t) ==
    IF r.den > 0 THEN r.num > t * r.den ELSE r.num < t * r.den

\* r >= t
maior_ou_igual(r, t) ==
    IF r.den > 0 THEN r.num >= t * r.den ELSE r.num <= t * r.den

\* gravidade with >= in place of >
gravidade_m(self) ==
    LET p == pct_erro(self)
    IN  IF maior_ou_igual(p, 10) THEN "CRITICA"
        ELSE IF maior_ou_igual(p, 5) THEN "ALTA"
        ELSE IF maior_ou_igual(p, 1) THEN "MEDIA"
        ELSE "BAIXA"

gravidade(self) ==
    LET p == pct_erro(self)
    IN  IF maior(p, 10) THEN "CRITICA"
        ELSE IF maior(p, 5) THEN "ALTA"
        ELSE IF maior(p, 1) THEN "MEDIA"
        ELSE "BAIXA"

(***************************************************************************)
(* ResultadoValidacao                                                      *)
(***************************************************************************)
ResultadoValidacao(nome, n, total, incs) ==
    [arquivo |-> nome, total_topicos |-> n, total_questoes |-> total,
     inconsistencias |-> incs]

valido(self) == self.inconsistencias = <<>>

(***************************************************************************)
(* Python primitives used by validador.py                                  *)
(***************************************************************************)
\* s.replace(c, '')
RECURSIVE remover(_, _)
remover(s, c) ==
    IF s = <<>> THEN <<>>
    ELSE IF Head(s) = c THEN remover(Tail(s), c)
    ELSE <<Head(s)>> \o remover(Tail(s), c)

RECURSIVE lstrip(_)
lstrip(s) ==
    IF s # <<>> /\ Head(s) = " " THEN lstrip(Tail(s)) ELSE s

RECURSIVE rstrip(_)
rstrip(s) ==
    IF s # <<>> /\ s[Len(s)] = " " THEN rstrip(SubSeq(s, 1, Len(s) - 1)) ELSE s

strip(s) == rstrip(lstrip(s))

Digitos == {"0", "1", "2", "3", "4", "5", "6", "7", "8", "9"}

digito(c) ==
    CASE c = "0" -> 0 [] c = "1" -> 1 [] c = "2" -> 2 [] c = "3" -> 3
      [] c = "4" -> 4 [] c = "5" -> 5 [] c = "6" -> 6 [] c = "7" -> 7
      [] c = "8" -> 8 [] c = "9" -> 9

RECURSIVE valor_decimal(_, _)
valor_decimal(s, acc) ==
    IF s = <<>> THEN acc ELSE valor_decimal(Tail(s), 10 * acc + digito(Head(s)))

\* int(s): None stands for ValueError
int(s) ==
    LET sinal == s # <<>> /\ Head(s) \in {"-", "+"}
        corpo == IF sinal THEN Tail(s) ELSE s
    IN  IF corpo = <<>> \/ \E i \in 1..Len(corpo) : corpo[i] \notin Digitos
        THEN None
        ELSE Some((IF sinal /\ Head(s) = "-" THEN -1 ELSE 1) * valor_decimal(corpo, 0))

\* s.replace(a, b), for single characters
RECURSIVE substituir(_, _, _)
substituir(s, a, b) ==
    IF s = <<>> THEN <<>>
    ELSE <<IF Head(s) = a THEN b ELSE Head(s)>> \o substituir(Tail(s), a, b)

RECURSIVE potencia10(_)
potencia10(n) == IF n = 0 THEN 1 ELSE 10 * potencia10(n - 1)

\* float(s) for a text of sign, digits and dot: None stands for ValueError.
\* The exponent, inf and nan forms float() also accepts hold a letter, and no
\* text drawn here does except as plain junk.
float(s) ==
    LET sinal == s # <<>> /\ Head(s) \in {"-", "+"}
        corpo == IF sinal THEN Tail(s) ELSE s
        pontos == count(corpo, ".")
        algarismos == remover(corpo, ".")
        casas == IF pontos = 0 THEN 0
                 ELSE Len(corpo) - (CHOOSE i \in 1..Len(corpo) : corpo[i] = ".")
    IN  IF \/ pontos > 1
           \/ algarismos = <<>>
           \/ \E i \in 1..Len(algarismos) : algarismos[i] \notin Digitos
        THEN None
        ELSE Some(Racional((IF sinal /\ Head(s) = "-" THEN -1 ELSE 1)
                               * valor_decimal(algarismos, 0),
                           potencia10(casas)))

\* sum(f.quantidade for f in filhos)
RECURSIVE sum_quantidade(_)
sum_quantidade(filhos) ==
    IF filhos = <<>> THEN 0
    ELSE Head(filhos).quantidade + sum_quantidade(Tail(filhos))

(***************************************************************************)
(* ValidadorHierarquia                                                     *)
(***************************************************************************)
\* A CSV row as csv.DictReader yields it: each field is Some(text), or None
\* when the row is shorter than the header.

\* list.clear()
\* a load that does not clear the list first
limpar_m(lista) == lista

limpar(lista) == <<>>

\* the row parsed with a ValueError on the count or on the percentage left
\* to propagate
parsear_linha_m(linha, num_linha) ==
    IF linha.Hierarquia = None \/ linha.Quantidade = None \/ linha.Porcentagem = None
    THEN None
    ELSE LET hierarquia == strip(linha.Hierarquia[1])
             qtd_str == strip(remover(linha.Quantidade[1], ","))
             lido == IF qtd_str # <<>> THEN int(qtd_str) ELSE Some(0)
             pct_str == strip(substituir(remover(linha.Porcentagem[1], "%"), ",", "."))
             pct == IF pct_str # <<>> THEN float(pct_str) ELSE Some(Zero)
         IN  IF lido = None \/ pct = None THEN None
             ELSE Some(Topico(hierarquia, lido[1], pct[1], num_linha))

\* None stands for the AttributeError raised on a field that is None
parsear_linha(linha, num_linha) ==
    IF linha.Hierarquia = None \/ linha.Quantidade = None \/ linha.Porcentagem = None
    THEN None
    ELSE LET hierarquia == strip(linha.Hierarquia[1])
             qtd_str == strip(remover(linha.Quantidade[1], ","))
             lido == IF qtd_str # <<>> THEN int(qtd_str) ELSE Some(0)
             quantidade == IF lido = None THEN 0 ELSE lido[1]
             pct_str == strip(substituir(remover(linha.Porcentagem[1], "%"), ",", "."))
             pct == IF pct_str # <<>> THEN float(pct_str) ELSE Some(Zero)
             porcentagem == IF pct = None THEN Zero ELSE pct[1]
         IN  Some(Topico(hierarquia, quantidade, porcentagem, num_linha))

\* if not topico.hierarquia: self._total_geral = topico
\* the root kept from the first empty-path row only
identificar_total_m(total, topico) ==
    IF topico.hierarquia = <<>> /\ total = None THEN Some(topico) ELSE total

identificar_total(total, topico) ==
    IF topico.hierarquia = <<>> THEN Some(topico) ELSE total

\* the loop over the reader; a row that raises ends the load with False and
\* leaves what the earlier rows stored
RECURSIVE ler_linhas(_, _, _, _)
ler_linhas(linhas, num_linha, tops, total) ==
    IF linhas = <<>> THEN [ok |-> TRUE, topicos |-> tops, total_geral |-> total]
    ELSE LET lido == parsear_linha(Head(linhas), num_linha)
         IN  IF lido = None
             THEN [ok |-> FALSE, topicos |-> tops, total_geral |-> total]
             ELSE ler_linhas(Tail(linhas), num_linha + 1,
                             Append(tops, lido[1]),
                             identificar_total(total, lido[1]))

\* conteudo is None when the path does not exist, else Some(data rows)
carregar_csv(tops, total, conteudo) ==
    LET limpos == limpar(tops)
    IN  IF conteudo = None
        THEN [ok |-> FALSE, topicos |-> limpos, total_geral |-> None]
        ELSE ler_linhas(conteudo[1], 2, limpos, None)

\* the scan with a bare prefix test, no level and no direct-child test
buscar_filhos_diretos_m(tops, p) ==
    SelectSeq(tops, LAMBDA topico :
                  /\ topico.hierarquia # p.hierarquia
                  /\ startswith(topico.hierarquia, p.hierarquia \o <<".">>))

\* the scan with the level test only
buscar_filhos_diretos_m2(tops, p) ==
    LET nivel_esperado == nivel(p) + 1
    IN  SelectSeq(tops, LAMBDA topico :
                      /\ topico.hierarquia # p.hierarquia
                      /\ nivel(topico) = nivel_esperado)

buscar_filhos_diretos(tops, p) ==
    LET nivel_esperado == nivel(p) + 1
    IN  SelectSeq(tops, LAMBDA topico :
                      /\ topico.hierarquia # p.hierarquia
                      /\ nivel(topico) = nivel_esperado
                      /\ eh_filho_de(topico, p))

\* the body of validar's loop for one topico: what it appends
\* the loop body without the leaf test
validar_topico_m(tops, topico) ==
    LET filhos == buscar_filhos_diretos(tops, topico)
        soma_filhos == sum_quantidade(filhos)
    IN  IF soma_filhos # topico.quantidade
        THEN <<Inconsistencia("SOMA_INCORRETA", topico, soma_filhos,
                              topico.quantidade - soma_filhos, filhos)>>
        ELSE <<>>

\* the loop body with diferenca taken the other way round
validar_topico_m2(tops, topico) ==
    LET filhos == buscar_filhos_diretos(tops, topico)
        soma_filhos == sum_quantidade(filhos)
    IN  IF filhos = <<>> THEN <<>>
        ELSE IF soma_filhos # topico.quantidade
        THEN <<Inconsistencia("SOMA_INCORRETA", topico, soma_filhos,
                              soma_filhos - topico.quantidade, filhos)>>
        ELSE <<>>

validar_topico(tops, topico) ==
    LET filhos == buscar_filhos_diretos(tops, topico)
        soma_filhos == sum_quantidade(filhos)
    IN  IF filhos = <<>> THEN <<>>
        ELSE IF soma_filhos # topico.quantidade
        THEN <<Inconsistencia("SOMA_INCORRETA", topico, soma_filhos,
                              topico.quantidade - soma_filhos, filhos)>>
        ELSE <<>>

RECURSIVE validar_desde(_, _)
validar_desde(tops, i) ==
    IF i > Len(tops) THEN <<>>
    ELSE validar_topico(tops, tops[i]) \o validar_desde(tops, i + 1)

\* a list back to front
RECURSIVE invertida(_)
invertida(lista) ==
    IF lista = <<>> THEN <<>> ELSE Append(invertida(Tail(lista)), Head(lista))

\* validar with its findings listed last row first
validar_m(tops) ==
    IF tops = <<>> THEN <<>> ELSE invertida(validar_desde(tops, 1))

\* validar that leaves the first record unchecked
validar_m2(tops) ==
    IF tops = <<>> THEN <<>> ELSE validar_desde(tops, 2)

validar(tops) ==
    IF tops = <<>> THEN <<>> ELSE validar_desde(tops, 1)

\* total_questoes read from the first record instead of _total_geral
validar_arquivo_m(tops, total, nome, conteudo) ==
    LET carga == carregar_csv(tops, total, conteudo)
    IN  carga @@
        [resultado |->
            IF ~carga.ok THEN ResultadoValidacao(nome, 0, 0, <<>>)
            ELSE ResultadoValidacao(
                     nome,
                     Len(carga.topicos),
                     IF carga.topicos # <<>>
                     THEN carga.topicos[1].quantidade ELSE 0,
                     validar(carga.topicos))]

\* a failed load reported with what the rows before the failure left behind
validar_arquivo_m2(tops, total, nome, conteudo) ==
    LET carga == carregar_csv(tops, total, conteudo)
    IN  carga @@
        [resultado |->
            ResultadoValidacao(
                nome,
                Len(carga.topicos),
                IF carga.total_geral # None
                THEN carga.total_geral[1].quantidade ELSE 0,
                validar(carga.topicos))]

validar_arquivo(tops, total, nome, conteudo) ==
    LET carga == carregar_csv(tops, total, conteudo)
    IN  carga @@
        [resultado |->
            IF ~carga.ok THEN ResultadoValidacao(nome, 0, 0, <<>>)
            ELSE ResultadoValidacao(
                     nome,
                     Len(carga.topicos),
                     IF carga.total_geral # None
                     THEN carga.total_geral[1].quantidade ELSE 0,
                     validar(carga.topicos))]

\* a - b, |r| and a > b on floats kept as ratios with a positive den
menos(a, b) == Racional(a.num * b.den - b.num * a.den, a.den * b.den)

modulo(r) == [num |-> abs(r.num), den |-> r.den]

excede(a, b) == a.num * b.den > b.num * a.den

\* (topico.quantidade / total) * 100 if total > 0 else 0
pct_esperada(topico, total) ==
    IF total > 0 THEN Racional(topico.quantidade * 100, total) ELSE Zero

\* validar_porcentagens: [] without a root, else the records other than the
\* root whose percentage is further than tolerancia from the expected one
validar_porcentagens(tops, total_geral_, tolerancia) ==
    IF total_geral_ = None THEN <<>>
    ELSE LET total == total_geral_[1].quantidade
         IN  SelectSeq(tops, LAMBDA topico :
                 /\ topico # total_geral_[1]
                 /\ LET diferenca == modulo(menos(pct_esperada(topico, total),
                                                  topico.porcentagem))
                    IN  excede(diferenca, tolerancia))

(***************************************************************************)
(* cli.py: the validar-hierarquia command over a batch of paths            *)
(***************************************************************************)
\* disco maps a path to None (nothing there) or Some(data rows)

\* one turn of the loop with the percentage errors counted as inconsistencies
cli_arquivo_m(tops, total, nome, conteudo, todas_inconsistencias) ==
    LET r == validar_arquivo(tops, total, nome, conteudo)
    IN  [topicos |-> r.topicos, total_geral |-> r.total_geral,
         todas_inconsistencias |->
             todas_inconsistencias
             \o (IF valido(r.resultado) THEN <<>> ELSE r.resultado.inconsistencias)
             \o validar_porcentagens(r.topicos, r.total_geral, Racional(1, 100))]

\* one turn of the loop for a path that exists: the validator's state after
\* validar_arquivo and the inconsistencies gathered so far
cli_arquivo(tops, total, nome, conteudo, todas_inconsistencias) ==
    LET r == validar_arquivo(tops, total, nome, conteudo)
    IN  [topicos |-> r.topicos, total_geral |-> r.total_geral,
         todas_inconsistencias |->
             IF valido(r.resultado) THEN todas_inconsistencias
             ELSE todas_inconsistencias \o r.resultado.inconsistencias]

\* for arquivo in arquivos, on the one validator made before the loop
RECURSIVE cli_laco(_, _, _, _, _)
cli_laco(disco, arquivos, tops, total, todas_inconsistencias) ==
    IF arquivos = <<>> THEN todas_inconsistencias
    ELSE IF disco[Head(arquivos)] = None
    THEN cli_laco(disco, Tail(arquivos), tops, total, todas_inconsistencias)
    ELSE LET v == cli_arquivo(tops, total, Head(arquivos), disco[Head(arquivos)],
                              todas_inconsistencias)
         IN  cli_laco(disco, Tail(arquivos), v.topicos, v.total_geral,
                      v.todas_inconsistencias)

\* the exit status of the command
validar_hierarquia(disco, arquivos) ==
    IF arquivos = <<>> THEN 1
    ELSE IF cli_laco(disco, arquivos, <<>>, None, <<>>) = <<>> THEN 0 ELSE 1

(***************************************************************************)
(* scripts/validar_hierarquia.py: the stand-alone script's validator, as   *)
(* far as its main uses it.  Its carregar_csv parses a row the way         *)
(* validador.py does and fails on the same rows, so carregar_csv above     *)
(* stands for it.                                                          *)
(***************************************************************************)
\* the script's scan without its level test
script_buscar_filhos_diretos_m(tops, p) ==
    SelectSeq(tops, LAMBDA topico :
                  /\ topico.hierarquia # p.hierarquia
                  /\ \/ p.hierarquia = <<>>
                     \/ startswith(topico.hierarquia, p.hierarquia \o <<".">>))

script_buscar_filhos_diretos(tops, p) ==
    LET nivel_esperado == nivel(p) + 1
    IN  SelectSeq(tops, LAMBDA topico :
                      /\ topico.hierarquia # p.hierarquia
                      /\ nivel(topico) = nivel_esperado
                      /\ \/ p.hierarquia = <<>>
                         \/ startswith(topico.hierarquia, p.hierarquia \o <<".">>))

RECURSIVE script_validar_desde(_, _)
script_validar_desde(tops, i) ==
    IF i > Len(tops) THEN <<>>
    ELSE LET topico == tops[i]
             filhos == script_buscar_filhos_diretos(tops, topico)
             soma_filhos == sum_quantidade(filhos)
             achado == IF filhos # <<>> /\ soma_filhos # topico.quantidade
                       THEN <<Inconsistencia("SOMA_INCORRETA", topico, soma_filhos,
                                             topico.quantidade - soma_filhos, filhos)>>
                       ELSE <<>>
         IN  achado \o script_validar_desde(tops, i + 1)

\* validar(): what self.inconsistencias holds after it, and what it returned
script_validar(tops) ==
    IF tops = <<>> THEN [retorno |-> FALSE, inconsistencias |-> <<>>]
    ELSE LET incs == script_validar_desde(tops, 1)
         IN  [retorno |-> (incs = <<>>), inconsistencias |-> incs]

\* the loop of main; validar_porcentagens is called after validar and its
\* result is only printed
RECURSIVE main_laco(_, _, _, _, _)
main_laco(disco, arquivos, tops, total, todas_inconsistencias) ==
    IF arquivos = <<>> THEN todas_inconsistencias
    ELSE IF disco[Head(arquivos)] = None
    THEN main_laco(disco, Tail(arquivos), tops, total, todas_inconsistencias)
    ELSE LET carga == carregar_csv(tops, total, disco[Head(arquivos)])
             v == script_validar(carga.topicos)
         IN  IF ~carga.ok
             THEN main_laco(disco, Tail(arquivos), carga.topicos, carga.total_geral,
                            todas_inconsistencias)
             ELSE main_laco(disco, Tail(arquivos), carga.topicos, carga.total_geral,
                            IF v.retorno THEN todas_inconsistencias
                            ELSE todas_inconsistencias \o v.inconsistencias)

\* sys.exit(0 if not todas_inconsistencias else 1)
main(disco, arquivos) ==
    IF main_laco(disco, arquivos, <<>>, None, <<>>) = <<>> THEN 0 ELSE 1

(***************************************************************************)
(* analisador.py: AnalisadorDados.  tops_analisador is what the list the   *)
(* analyser's _topicos refers to holds, tops_validador what the list of    *)
(* its validator holds.                                                    *)
(***************************************************************************)
\* a + b on floats kept as ratios
mais(a, b) == Racional(a.num * b.den + b.num * a.den, a.den * b.den)

\* [t for t in self._topicos if t.nivel == nivel]
topicos_por_nivel(tops_analisador, nivel_) ==
    SelectSeq(tops_analisador, LAMBDA t : nivel(t) = nivel_)

\* where sorted() puts t among records already in order: after every record
\* that does not come strictly after it, so that ties keep their first order
RECURSIVE inserir(_, _, _)
inserir(ordenados, t, ordem_crescente) ==
    IF ordenados = <<>> THEN <<t>>
    ELSE LET primeiro == Head(ordenados)
             depois == IF ordem_crescente
                       THEN primeiro.quantidade > t.quantidade
                       ELSE primeiro.quantidade < t.quantidade
         IN  IF depois THEN <<t>> \o ordenados
             ELSE <<primeiro>> \o inserir(Tail(ordenados), t, ordem_crescente)

\* sorted(topicos, key=lambda t: t.quantidade, reverse=not ordem_crescente)
RECURSIVE sorted(_, _, _)
sorted(lista, feitos, ordem_crescente) ==
    IF lista = <<>> THEN feitos
    ELSE sorted(Tail(lista), inserir(feitos, Head(lista), ordem_crescente),
                ordem_crescente)

\* lista[:limite], a negative limite counting from the end
ate(lista, limite) ==
    IF limite >= 0
    THEN SubSeq(lista, 1, IF limite < Len(lista) THEN limite ELSE Len(lista))
    ELSE SubSeq(lista, 1, Len(lista) + limite)

\* the loop with each item given its own percentage, nothing carried over
RECURSIVE acumular_m(_, _, _)
acumular_m(ordenados, i, acumulado) ==
    IF ordenados = <<>> THEN <<>>
    ELSE LET topico == Head(ordenados)
         IN  <<[posicao |-> i, topico |-> topico,
                percentual_acumulado |-> topico.porcentagem]>>
             \o acumular_m(Tail(ordenados), i + 1, acumulado)

\* the loop that numbers the items and adds the percentages up
RECURSIVE acumular(_, _, _)
acumular(ordenados, i, acumulado) ==
    IF ordenados = <<>> THEN <<>>
    ELSE LET topico == Head(ordenados)
             novo == mais(acumulado, topico.porcentagem)
         IN  <<[posicao |-> i, topico |-> topico, percentual_acumulado |-> novo]>>
             \o acumular(Tail(ordenados), i + 1, novo)

\* nivel_ is None or Some(level)
ranking_topicos(tops_analisador, nivel_, limite, ordem_crescente) ==
    LET escolhidos == IF nivel_ = None THEN tops_analisador
                      ELSE topicos_por_nivel(tops_analisador, nivel_[1])
        sem_raiz == SelectSeq(escolhidos, LAMBDA t : t.hierarquia # <<>>)
        ordenados == ate(sorted(sem_raiz, <<>>, ordem_crescente), limite)
    IN  acumular(ordenados, 1, Zero)

\* a node of the tree with no nesting below its children
no_m(tops_validador, f) ==
    [hierarquia |-> f.hierarquia, quantidade |-> f.quantidade,
     porcentagem |-> f.porcentagem,
     filhos |-> LET filhos == buscar_filhos_diretos(tops_validador, f)
                IN  [k \in 1..Len(filhos) |->
                        [hierarquia |-> filhos[k].hierarquia,
                         quantidade |-> filhos[k].quantidade,
                         porcentagem |-> filhos[k].porcentagem,
                         filhos |-> <<>>]]]

\* the dict made for a record: its fields and, under filhos, the dicts of its
\* direct children, nested the same way
RECURSIVE no(_, _)
no(tops_validador, f) ==
    [hierarquia |-> f.hierarquia, quantidade |-> f.quantidade,
     porcentagem |-> f.porcentagem,
     filhos |-> LET filhos == buscar_filhos_diretos(tops_validador, f)
                IN  [k \in 1..Len(filhos) |-> no(tops_validador, filhos[k])]]

\* the first record with the path, as next(...) finds it
primeiro_com(tops_analisador, hierarquia) ==
    LET S == {i \in 1..Len(tops_analisador) :
                 tops_analisador[i].hierarquia = hierarquia}
    IN  IF S = {} THEN None
        ELSE Some(tops_analisador[CHOOSE i \in S : \A j \in S : i <= j])

\* None stands for the empty dict
arvore_topico(tops_analisador, tops_validador, hierarquia) ==
    LET topico == primeiro_com(tops_analisador, hierarquia)
    IN  IF topico = None THEN None
        ELSE Some(no(tops_validador, topico[1]))

(***************************************************************************)
(* Values the variables of one specification keep in the others            *)
(***************************************************************************)
AlgOcioso ==
    [fase |-> "ocioso", self |-> Topico(<<>>, 0, Zero, 0), outro |-> Topico(<<>>, 0, Zero, 0),
     nivel |-> -1, pai |-> None, filho |-> FALSE]

GravOcioso ==
    [fase |-> "ocioso",
     inc |-> Inconsistencia("SOMA", Topico(<<"1">>, 0, Zero, 0), 0, 0, <<>>),
     gravidade |-> ""]

ChamadaNenhuma ==
    [op |-> "nenhuma", caminho |-> "", conteudo |-> None, reusado |-> FALSE,
     ok |-> FALSE, inconsistencias |-> <<>>, resultado |-> None,
     tolerancia |-> Zero, erros_pct |-> <<>>, arquivos |-> <<>>, status |-> -1,
     filhos |-> <<>>, consultado |-> None, nivel |-> None, limite |-> 0,
     ordem_crescente |-> FALSE, ranking |-> <<>>, hierarquia |-> <<>>,
     arvore |-> None]

\* AnalisadorDados.__init__: _topicos is a list of its own, empty; carregado
\* is what the validator's list held when carregar took it
AnalisadorOcioso ==
    [topicos |-> "propria", total_geral |-> None, carregado |-> <<>>]

ValidadorOcioso ==
    /\ arquivo = <<>>
    /\ topicos = <<>>
    /\ total_geral = None
    /\ chamada = ChamadaNenhuma
    /\ analisador = AnalisadorOcioso
    /\ obtido = None

(***************************************************************************)
(* Spec: one validator, one CSV file that grows, and a path that is missing *)
(***************************************************************************)
\* the texts of the count column and of the path column of a full row: the
\* root, two first-level paths of which one is a prefix of the other, and a
\* child of the first
QtdTextos == {<<"0">>, <<"1">>}

HierTextosArq ==
    {<<>>, <<"1">>, <<"1", "1">>, <<"1", ".", "1">>}

PctTextos == {<<"0", "%">>}

\* the full rows, and a row cut short before its count column
LinhasCsv ==
    [Hierarquia : {Some(h) : h \in HierTextosArq},
     Quantidade : {Some(t) : t \in QtdTextos},
     Porcentagem : {Some(t) : t \in PctTextos}]
    \cup {[Hierarquia |-> Some(<<"1">>), Quantidade |-> None, Porcentagem |-> None]}

Caminhos == {"dados.csv", "inexistente.csv"}

\* what is on disk at a path: None when nothing is
conteudo_de(caminho) == IF caminho = "dados.csv" THEN Some(arquivo) ELSE None

Init ==
    /\ ValidadorOcioso
    /\ alg = AlgOcioso
    /\ grav = GravOcioso

\* the environment appends a data row to the file
EscreverLinha(linha) ==
    /\ Len(arquivo) < MaxLinhas
    /\ arquivo' = Append(arquivo, linha)
    /\ UNCHANGED <<topicos, total_geral, chamada, alg, grav, analisador, obtido>>

CarregarCsv(caminho) ==
    LET r == carregar_csv(topicos, total_geral, conteudo_de(caminho))
    IN  /\ topicos' = r.topicos
        /\ total_geral' = r.total_geral
        /\ chamada' = [ChamadaNenhuma EXCEPT !.op = "carregar_csv",
                                             !.caminho = caminho,
                                             !.conteudo = conteudo_de(caminho),
                                             !.ok = r.ok]
        /\ UNCHANGED <<arquivo, alg, grav, analisador, obtido>>

Validar ==
    /\ chamada' = [ChamadaNenhuma EXCEPT !.op = "validar",
                                         !.inconsistencias = validar(topicos)]
    /\ UNCHANGED <<arquivo, topicos, total_geral, alg, grav, analisador, obtido>>

ValidarArquivo(caminho) ==
    LET r == validar_arquivo(topicos, total_geral, caminho, conteudo_de(caminho))
    IN  /\ topicos' = r.topicos
        /\ total_geral' = r.total_geral
        /\ chamada' = [ChamadaNenhuma EXCEPT !.op = "validar_arquivo",
                                             !.caminho = caminho,
                                             !.conteudo = conteudo_de(caminho),
                                             !.reusado = (topicos # <<>>),
                                             !.ok = r.ok,
                                             !.resultado = Some(r.resultado)]
        /\ UNCHANGED <<arquivo, alg, grav, analisador, obtido>>

Next ==
    \/ \E linha \in LinhasCsv : EscreverLinha(linha)
    \/ \E caminho \in Caminhos : CarregarCsv(caminho)
    \/ Validar
    \/ \E caminho \in Caminhos : ValidarArquivo(caminho)

Spec == Init /\ [][Next]_vars

(***************************************************************************)
(* SpecLinha: a file of two rows whose count and percentage columns hold   *)
(* good and bad texts, loaded by carregar_csv                              *)
(***************************************************************************)
\* "", junk, 1, -1, 1,0 (ten, with a thousands separator), 1 between blanks,
\* 1.0, a lone sign, +1
QtdTextosRicos ==
    {<<>>, <<"x">>, <<"1">>, <<"-", "1">>, <<"1", ",", "0">>, <<" ", "1", " ">>,
     <<"1", ".", "0">>, <<"-">>, <<"+", "1">>}

\* "", junk, 50%, 50,5%, 5% between blanks, 1.2.3, -1%, .5, a lone %
PctTextosRicos ==
    {<<>>, <<"x">>, <<"5", "0", "%">>, <<"5", "0", ",", "5", "%">>,
     <<" ", "5", "%", " ">>, <<"1", ".", "2", ".", "3">>, <<"-", "1", "%">>,
     <<".", "5">>, <<"%">>}

LinhasRicas ==
    [Hierarquia : {Some(<<"1">>), Some(<<" ", "1", " ">>)},
     Quantidade : {Some(t) : t \in QtdTextosRicos},
     Porcentagem : {Some(t) : t \in PctTextosRicos}]

InitLinha ==
    /\ \E l1 \in LinhasRicas, l2 \in LinhasRicas : arquivo = <<l1, l2>>
    /\ topicos = <<>>
    /\ total_geral = None
    /\ chamada = ChamadaNenhuma
    /\ analisador = AnalisadorOcioso
    /\ obtido = None
    /\ alg = AlgOcioso
    /\ grav = GravOcioso

NextLinha == CarregarCsv("dados.csv")

SpecLinha == InitLinha /\ [][NextLinha]_vars

(***************************************************************************)
(* SpecPorcentagem: a short file whose percentages are right or wrong,     *)
(* checked by validar_porcentagens, by validar_arquivo and by the two      *)
(* command-line programs run over a batch of paths                         *)
(***************************************************************************)
MaxLinhasPct == 2    \* most data rows in the file of SpecPorcentagem

\* a whole row of the file
Linha(h, q, pct) == [Hierarquia |-> Some(h), Quantidade |-> Some(q), Porcentagem |-> Some(pct)]

\* the percentage texts: 0%, 100% and 0,5%
PctTextosPct == {<<"0", "%">>, <<"1", "0", "0", "%">>, <<"0", ",", "5", "%">>}

\* a root of 1, of 0 and of -1 questions; a first-level topic of 1 question
\* said to be 100% and 0%, and one of 0 questions said to be 0,5% and 0%; and
\* a row cut short
LinhasPct ==
    {Linha(<<>>, <<"1">>, <<"1", "0", "0", "%">>),
     Linha(<<>>, <<"0">>, <<"0", "%">>),
     Linha(<<>>, <<"-", "1">>, <<"0", "%">>),
     Linha(<<"1">>, <<"1">>, <<"1", "0", "0", "%">>),
     Linha(<<"1">>, <<"1">>, <<"0", "%">>),
     Linha(<<"1">>, <<"0">>, <<"0", ",", "5", "%">>),
     Linha(<<"1">>, <<"0">>, <<"0", "%">>),
     [Hierarquia |-> Some(<<"1">>), Quantidade |-> None, Porcentagem |-> None]}

\* the default tolerance 0.01 and a wide one
Tolerancias == {Racional(1, 100), Racional(1, 1)}

\* the batches: none, the file, the missing path, and both in either order
Lotes ==
    {<<>>, <<"dados.csv">>, <<"inexistente.csv">>,
     <<"dados.csv", "inexistente.csv">>, <<"inexistente.csv", "dados.csv">>}

disco_com(linhas) == [c \in Caminhos |-> IF c = "dados.csv" THEN Some(linhas) ELSE None]

InitPorcentagem ==
    /\ \E n \in 0..MaxLinhasPct : arquivo \in [1..n -> LinhasPct]
    /\ topicos = <<>>
    /\ total_geral = None
    /\ chamada = ChamadaNenhuma
    /\ analisador = AnalisadorOcioso
    /\ obtido = None
    /\ alg = AlgOcioso
    /\ grav = GravOcioso

ValidarPorcentagens(tolerancia) ==
    /\ chamada' = [ChamadaNenhuma EXCEPT
                      !.op = "validar_porcentagens",
                      !.tolerancia = tolerancia,
                      !.erros_pct = validar_porcentagens(topicos, total_geral,
                                                         tolerancia)]
    /\ UNCHANGED <<arquivo, topicos, total_geral, alg, grav, analisador, obtido>>

\* the package's command, on a validator of its own
ValidarHierarquia(arquivos) ==
    /\ chamada' = [ChamadaNenhuma EXCEPT
                      !.op = "cli",
                      !.arquivos = arquivos,
                      !.status = validar_hierarquia(disco_com(arquivo), arquivos)]
    /\ UNCHANGED <<arquivo, topicos, total_geral, alg, grav, analisador, obtido>>

\* the script's main, on a validator of its own
Main(arquivos) ==
    /\ chamada' = [ChamadaNenhuma EXCEPT
                      !.op = "script",
                      !.arquivos = arquivos,
                      !.status = main(disco_com(arquivo), arquivos)]
    /\ UNCHANGED <<arquivo, topicos, total_geral, alg, grav, analisador, obtido>>

NextPorcentagem ==
    \/ \E caminho \in Caminhos : CarregarCsv(caminho)
    \/ \E tolerancia \in Tolerancias : ValidarPorcentagens(tolerancia)
    \/ \E caminho \in Caminhos : ValidarArquivo(caminho)
    \/ \E arquivos \in Lotes : ValidarHierarquia(arquivos)
    \/ \E arquivos \in Lotes : Main(arquivos)

SpecPorcentagem == InitPorcentagem /\ [][NextPorcentagem]_vars

(***************************************************************************)
(* SpecAnalisador: a validator whose list is handed out, to a client       *)
(* through the topicos property and to the AnalisadorDados that owns the   *)
(* validator, and is then used again.  The validator has one list object   *)
(* for its whole life (clear and append act on it in place), so whoever    *)
(* holds it sees what the variable topicos holds now.                      *)
(***************************************************************************)
LinhasAnalisador ==
    [Hierarquia : {Some(<<>>), Some(<<"1">>)},
     Quantidade : {Some(t) : t \in QtdTextos},
     Porcentagem : {Some(t) : t \in PctTextos}]
    \cup {[Hierarquia |-> Some(<<"1">>), Quantidade |-> None, Porcentagem |-> None]}

InitAnalisador ==
    /\ \E n \in 0..MaxLinhas : arquivo \in [1..n -> LinhasAnalisador]
    /\ topicos = <<>>
    /\ total_geral = None
    /\ chamada = ChamadaNenhuma
    /\ analisador = AnalisadorOcioso
    /\ obtido = None
    /\ alg = AlgOcioso
    /\ grav = GravOcioso

\* AnalisadorDados.carregar
Carregar(caminho) ==
    LET r == carregar_csv(topicos, total_geral, conteudo_de(caminho))
    IN  /\ topicos' = r.topicos
        /\ total_geral' = r.total_geral
        /\ analisador' = IF r.ok
                         THEN [topicos |-> "validador",
                               total_geral |-> r.total_geral,
                               carregado |-> r.topicos]
                         ELSE analisador
        /\ chamada' = [ChamadaNenhuma EXCEPT !.op = "carregar",
                                             !.caminho = caminho,
                                             !.conteudo = conteudo_de(caminho),
                                             !.ok = r.ok]
        /\ UNCHANGED <<arquivo, alg, grav, obtido>>

\* a client reads the topicos property after a load that returned True and
\* keeps what it got
ObterTopicos ==
    /\ chamada.op = "carregar_csv"
    /\ chamada.ok
    /\ obtido' = Some(topicos)
    /\ chamada' = [ChamadaNenhuma EXCEPT !.op = "topicos"]
    /\ UNCHANGED <<arquivo, topicos, total_geral, alg, grav, analisador>>

BuscarFilhosDiretos(i) ==
    /\ chamada' = [ChamadaNenhuma EXCEPT
                      !.op = "buscar_filhos_diretos",
                      !.consultado = Some(topicos[i]),
                      !.filhos = buscar_filhos_diretos(topicos, topicos[i])]
    /\ UNCHANGED <<arquivo, topicos, total_geral, alg, grav, analisador, obtido>>

NextAnalisador ==
    \/ \E caminho \in Caminhos : CarregarCsv(caminho)
    \/ \E caminho \in Caminhos : Carregar(caminho)
    \/ ObterTopicos
    \/ Validar
    \/ ValidarPorcentagens(Racional(1, 100))
    \/ \E i \in 1..Len(topicos) : BuscarFilhosDiretos(i)

SpecAnalisador == InitAnalisador /\ [][NextAnalisador]_vars

(***************************************************************************)
(* SpecArvore: an AnalisadorDados loads a short file of paths down to the  *)
(* second level, and its validator, the script's validator and             *)
(* arvore_topico are then asked about what was loaded                      *)
(***************************************************************************)
MaxLinhasArv == 3    \* most data rows in the file of SpecArvore

\* the root, two first-level paths, a child of the first, and a path that
\* begins with a dot
HierTextosArv ==
    {<<>>, <<"1">>, <<"2">>, <<"1", ".", "1">>, <<".", "1">>}

\* a root of 0 and of 1 question, the first first-level topic with 0 and with
\* 1, the second with 1, a second-level topic with 1, and the dotted path
LinhasArv ==
    {Linha(<<>>, <<"0">>, <<"0", "%">>),
     Linha(<<>>, <<"1">>, <<"0", "%">>),
     Linha(<<"1">>, <<"0">>, <<"0", "%">>),
     Linha(<<"1">>, <<"1">>, <<"0", "%">>),
     Linha(<<"2">>, <<"1">>, <<"0", "%">>),
     Linha(<<"1", ".", "1">>, <<"1">>, <<"0", "%">>),
     Linha(<<".", "1">>, <<"1">>, <<"0", "%">>)}

\* what the list behind the analyser's _topicos holds now
analisador_topicos == IF analisador.topicos = "validador" THEN topicos ELSE <<>>

InitArvore ==
    /\ \E n \in 0..MaxLinhasArv : arquivo \in [1..n -> LinhasArv]
    /\ topicos = <<>>
    /\ total_geral = None
    /\ chamada = ChamadaNenhuma
    /\ analisador = AnalisadorOcioso
    /\ obtido = None
    /\ alg = AlgOcioso
    /\ grav = GravOcioso

\* the script's buscar_filhos_diretos and validar, on a validator of the
\* script that has loaded the same file
ScriptBuscarFilhosDiretos(i) ==
    /\ chamada' = [ChamadaNenhuma EXCEPT
                      !.op = "script_buscar_filhos_diretos",
                      !.consultado = Some(topicos[i]),
                      !.filhos = script_buscar_filhos_diretos(topicos, topicos[i])]
    /\ UNCHANGED <<arquivo, topicos, total_geral, alg, grav, analisador, obtido>>

ScriptValidar ==
    /\ chamada' = [ChamadaNenhuma EXCEPT
                      !.op = "script_validar",
                      !.ok = script_validar(topicos).retorno,
                      !.inconsistencias = script_validar(topicos).inconsistencias]
    /\ UNCHANGED <<arquivo, topicos, total_geral, alg, grav, analisador, obtido>>

ArvoreTopico(hierarquia) ==
    /\ chamada' = [ChamadaNenhuma EXCEPT
                      !.op = "arvore_topico",
                      !.hierarquia = hierarquia,
                      !.arvore = arvore_topico(analisador_topicos, topicos,
                                               hierarquia)]
    /\ UNCHANGED <<arquivo, topicos, total_geral, alg, grav, analisador, obtido>>

NextArvore ==
    \/ Carregar("dados.csv")
    \/ Validar
    \/ ScriptValidar
    \/ \E i \in 1..Len(topicos) : BuscarFilhosDiretos(i)
    \/ \E i \in 1..Len(topicos) : ScriptBuscarFilhosDiretos(i)
    \/ \E hierarquia \in HierTextosArv : ArvoreTopico(hierarquia)

SpecArvore == InitArvore /\ [][NextArvore]_vars

(***************************************************************************)
(* SpecRanking: ranking_topicos over a short file with ties in the counts  *)
(***************************************************************************)
MaxLinhasRank == 3   \* most data rows in the file of SpecRanking
MaxLimite == 2       \* largest limite given to ranking_topicos

\* a root; two first-level topics of 1 question with different percentages
\* and one of 2 questions; two second-level topics
LinhasRank ==
    {Linha(<<>>, <<"2">>, <<"1", "0", "0", "%">>),
     Linha(<<"1">>, <<"1">>, <<"5", "0", "%">>),
     Linha(<<"2">>, <<"1">>, <<"2", "5", "%">>),
     Linha(<<"2">>, <<"2">>, <<"1", "0", "0", "%">>),
     Linha(<<"1", ".", "1">>, <<"0">>, <<"0", ",", "5", "%">>),
     Linha(<<"1", ".", "1">>, <<"1">>, <<"5", "0", "%">>)}

\* nivel=None and the two levels the file can hold
NiveisRank == {None, Some(1), Some(2)}

InitRanking ==
    /\ \E n \in 0..MaxLinhasRank : arquivo \in [1..n -> LinhasRank]
    /\ topicos = <<>>
    /\ total_geral = None
    /\ chamada = ChamadaNenhuma
    /\ analisador = AnalisadorOcioso
    /\ obtido = None
    /\ alg = AlgOcioso
    /\ grav = GravOcioso

RankingTopicos(nivel_, limite, ordem_crescente) ==
    /\ chamada' = [ChamadaNenhuma EXCEPT
                      !.op = "ranking_topicos",
                      !.nivel = nivel_,
                      !.limite = limite,
                      !.ordem_crescente = ordem_crescente,
                      !.ranking = ranking_topicos(analisador_topicos, nivel_,
                                                  limite, ordem_crescente)]
    /\ UNCHANGED <<arquivo, topicos, total_geral, alg, grav, analisador, obtido>>

NextRanking ==
    \/ Carregar("dados.csv")
    \/ \E nivel_ \in NiveisRank, limite \in 0..MaxLimite, ordem_crescente \in BOOLEAN :
          RankingTopicos(nivel_, limite, ordem_crescente)

SpecRanking == InitRanking /\ [][NextRanking]_vars

(***************************************************************************)
(* SpecCarga: an AnalisadorDados that loads, again and again, a file that  *)
(* grows between the loads, or a path that is missing                      *)
(***************************************************************************)
InitCarga ==
    /\ ValidadorOcioso
    /\ alg = AlgOcioso
    /\ grav = GravOcioso

NextCarga ==
    \/ \E linha \in LinhasAnalisador : EscreverLinha(linha)
    \/ \E caminho \in Caminhos : Carregar(caminho)

SpecCarga == InitCarga /\ [][NextCarga]_vars

(***************************************************************************)
(* SpecTopico: the Topico properties applied to every pair of paths        *)
(***************************************************************************)
InitTopico ==
    /\ ValidadorOcioso
    /\ grav = GravOcioso
    /\ \E a \in Textos(MaxHierLen), b \in Textos(MaxHierLen) :
          alg = [AlgOcioso EXCEPT !.fase = "entrada",
                                  !.self = Topico(a, 0, Zero, 0),
                                  !.outro = Topico(b, 0, Zero, 0)]

ConsultarNivel ==
    /\ alg.fase = "entrada"
    /\ alg' = [alg EXCEPT !.fase = "nivel", !.nivel = nivel(alg.self)]
    /\ UNCHANGED <<arquivo, topicos, total_geral, chamada, grav, analisador, obtido>>

ConsultarPai ==
    /\ alg.fase = "entrada"
    /\ alg' = [alg EXCEPT !.fase = "pai", !.pai = pai(alg.self)]
    /\ UNCHANGED <<arquivo, topicos, total_geral, chamada, grav, analisador, obtido>>

ConsultarEhFilhoDe ==
    /\ alg.fase = "entrada"
    /\ alg' = [alg EXCEPT !.fase = "eh_filho_de",
                          !.filho = eh_filho_de(alg.self, alg.outro)]
    /\ UNCHANGED <<arquivo, topicos, total_geral, chamada, grav, analisador, obtido>>

NextTopico == ConsultarNivel \/ ConsultarPai \/ ConsultarEhFilhoDe

SpecTopico == InitTopico /\ [][NextTopico]_vars

(***************************************************************************)
(* SpecGravidade: gravidade applied to every (diferenca, pai.quantidade)   *)
(***************************************************************************)
InitGravidade ==
    /\ ValidadorOcioso
    /\ alg = AlgOcioso
    /\ \E d \in -MaxDiferenca..MaxDiferenca, q \in -1..MaxQuantidade :
          grav = [GravOcioso EXCEPT
                     !.fase = "entrada",
                     !.inc = Inconsistencia("SOMA", Topico(<<"1">>, q, Zero, 0), q - d, d, <<>>)]

ConsultarGravidade ==
    /\ grav.fase = "entrada"
    /\ grav' = [grav EXCEPT !.fase = "gravidade", !.gravidade = gravidade(grav.inc)]
    /\ UNCHANGED <<arquivo, topicos, total_geral, chamada, alg, analisador, obtido>>

NextGravidade == ConsultarGravidade

SpecGravidade == InitGravidade /\ [][NextGravidade]_vars

(***************************************************************************)
(* Vocabulary of the properties: depth and prefix stated over positions    *)
(***************************************************************************)
Pontos(h) == Cardinality({i \in 1..Len(h) : h[i] = "."})

Profundidade(h) == IF Len(h) = 0 THEN 0 ELSE Pontos(h) + 1

\* b is a followed by a dot and then by a dot-free suffix
EstendeUmSegmento(b, a) ==
    /\ Len(b) > Len(a)
    /\ \A i \in 1..Len(a) : b[i] = a[i]
    /\ b[Len(a) + 1] = "."
    /\ \A j \in (Len(a) + 2)..Len(b) : b[j] # "."

\* position of the last dot of h, 0 when there is none
UltimoPonto(h) ==
    IF Pontos(h) = 0 THEN 0
    ELSE CHOOSE i \in 1..Len(h) : h[i] = "." /\ \A j \in (i + 1)..Len(h) : h[j] # "."

SemUltimoSegmento(h) == [i \in 1..(UltimoPonto(h) - 1) |-> h[i]]

\* C4: B.eh_filho_de(A) is true exactly when B is one level below A and either
\* A is the root and B has depth 1, or B is A's path, a dot and a dot-free
\* suffix; every depth-1 record is a child of the root and a record two levels
\* below is never a direct child.
C4_EhFilhoDe ==
    alg.fase = "eh_filho_de" =>
        LET a == alg.outro.hierarquia
            b == alg.self.hierarquia
        IN  /\ alg.filho <=>
                 /\ Profundidade(b) = Profundidade(a) + 1
                 /\ \/ (a = <<>> /\ Profundidade(b) = 1)
                    \/ EstendeUmSegmento(b, a)
            /\ (a = <<>> /\ Profundidade(b) = 1) => alg.filho
            /\ Profundidade(b) = Profundidade(a) + 2 => ~alg.filho

C4_Witness ==
    /\ alg.fase = "eh_filho_de"
    /\ alg.outro.hierarquia = <<"1">>
    /\ alg.self.hierarquia = <<"1", ".", "1">>
    /\ alg.filho

\* the form on which parent and depth disagree: a dot followed by a
\* dot-free segment
PontoInicialUnico(h) == Len(h) > 0 /\ h[1] = "." /\ Pontos(h) = 1

C5_Pai_Valor ==
    LET h == alg.self.hierarquia
    IN  /\ h = <<>> => alg.pai = None
        /\ (h # <<>> /\ Pontos(h) = 0) => alg.pai = Some(<<>>)
        /\ Pontos(h) > 0 => alg.pai = Some(SemUltimoSegmento(h))

C6_Nivel ==
    alg.fase = "nivel" =>
        LET h == alg.self.hierarquia
        IN  /\ h = <<>> => alg.nivel = 0
            /\ h # <<>> => alg.nivel = Pontos(h) + 1

C6_Witness ==
    /\ alg.fase = "nivel"
    /\ alg.self.hierarquia = <<"1", ".", "1", ".", "1">>
    /\ alg.nivel = 3

\* C7: gravidade is CRITICA when |diferenca| / pai.quantidade * 100 > 10, else
\* ALTA when > 5, else MEDIA when > 1, else BAIXA, the percentage being 0
\* when pai.quantidade is 0; exactly 10% is ALTA, 5% MEDIA and 1% BAIXA.
C7_Gravidade ==
    grav.fase = "gravidade" =>
        LET q == grav.inc.pai.quantidade
            x == 100 * abs(grav.inc.diferenca)
            g == grav.gravidade
        IN  /\ g \in {"CRITICA", "ALTA", "MEDIA", "BAIXA"}
            /\ q = 0 => g = "BAIXA"
            /\ q < 0 => g = "BAIXA"
            /\ q > 0 =>
                 /\ g = "CRITICA" <=> x > 10 * q
                 /\ g = "ALTA" <=> (x > 5 * q /\ x <= 10 * q)
                 /\ g = "MEDIA" <=> (x > q /\ x <= 5 * q)
                 /\ g = "BAIXA" <=> x <= q
                 /\ x = 10 * q => g = "ALTA"
                 /\ x = 5 * q => g = "MEDIA"
                 /\ x = q => g = "BAIXA"

C7_Witness ==
    /\ grav.fase = "gravidade"
    /\ grav.inc.pai.quantidade = 100
    /\ grav.inc.diferenca = 10
    /\ grav.gravidade = "ALTA"

(***************************************************************************)
(* Vocabulary of the properties of the validator                           *)
(***************************************************************************)
\* c is one level below p and either p is the root or c extends p's path by
\* one segment
FilhoDireto(c, p) ==
    /\ Profundidade(c.hierarquia) = Profundidade(p.hierarquia) + 1
    /\ \/ p.hierarquia = <<>>
       \/ EstendeUmSegmento(c.hierarquia, p.hierarquia)

\* the rows of tops that hold a direct child of p
IndicesFilhos(tops, p) == {j \in 1..Len(tops) : FilhoDireto(tops[j], p)}

\* the k-th smallest element of a set of row numbers
Enesimo(S, k) == CHOOSE j \in S : Cardinality({i \in S : i < j}) = k - 1

\* f lists, in row order, exactly the records of tops at the rows S
EmOrdemDeLinha(f, tops, S) ==
    /\ Len(f) = Cardinality(S)
    /\ \A k \in 1..Len(f) : f[k] = tops[Enesimo(S, k)]

RECURSIVE SomaLinhas(_, _)
SomaLinhas(tops, S) ==
    IF S = {} THEN 0
    ELSE LET j == CHOOSE j \in S : TRUE
         IN  tops[j].quantidade + SomaLinhas(tops, S \ {j})

\* the rows that hold a record with an empty path
Raizes(tops) == {i \in 1..Len(tops) : Len(tops[i].hierarquia) = 0}

Maximo(S) == CHOOSE i \in S : \A j \in S : j <= i

Minimo(S) == CHOOSE i \in S : \A j \in S : i <= j

\* C1: validar() returns an Inconsistencia for record R exactly when R has a
\* direct child in the loaded set and the children's counts do not sum to R's
\* count; a leaf yields none and no record yields more than one.
C1_Validar ==
    chamada.op = "validar" =>
        LET incs == chamada.inconsistencias
        IN  /\ \A k \in 1..Len(incs) : \E i \in 1..Len(topicos) : incs[k].pai = topicos[i]
            /\ \A i \in 1..Len(topicos) :
                 LET S == IndicesFilhos(topicos, topicos[i])
                     n == Cardinality({k \in 1..Len(incs) : incs[k].pai = topicos[i]})
                 IN  /\ n <= 1
                     /\ n = 1 <=> (S # {} /\ SomaLinhas(topicos, S) # topicos[i].quantidade)
                     /\ S = {} => n = 0

\* a leaf with a non-zero count beside a parent that is reported
C1_Witness ==
    /\ chamada.op = "validar"
    /\ Len(chamada.inconsistencias) = 1
    /\ \E i \in 1..Len(topicos) :
          /\ IndicesFilhos(topicos, topicos[i]) = {}
          /\ topicos[i].quantidade = 1

\* C2: every Inconsistencia validar() returns has a non-empty filhos that is
\* the list of pai's direct children, soma_filhos their total count, and
\* diferenca = pai.quantidade - soma_filhos, non-zero, positive on a deficit
\* and negative on a surplus.
C2_Inconsistencia ==
    chamada.op = "validar" =>
        \A k \in 1..Len(chamada.inconsistencias) :
            LET inc == chamada.inconsistencias[k]
                S == IndicesFilhos(topicos, inc.pai)
            IN  /\ inc.filhos # <<>>
                /\ EmOrdemDeLinha(inc.filhos, topicos, S)
                /\ inc.soma_filhos = SomaLinhas(topicos, S)
                /\ inc.diferenca = inc.pai.quantidade - inc.soma_filhos
                /\ inc.diferenca # 0
                /\ inc.diferenca > 0 <=> inc.soma_filhos < inc.pai.quantidade
                /\ inc.diferenca < 0 <=> inc.soma_filhos > inc.pai.quantidade

\* a deficit and a surplus reported by the same call
C2_Witness ==
    /\ chamada.op = "validar"
    /\ \E k \in 1..Len(chamada.inconsistencias) : chamada.inconsistencias[k].diferenca > 0
    /\ \E k \in 1..Len(chamada.inconsistencias) : chamada.inconsistencias[k].diferenca < 0

\* the records buscar_filhos_diretos is asked about: those loaded and one of
\* every path a row can carry
Consultados ==
    {topicos[i] : i \in 1..Len(topicos)} \cup {Topico(h, 0, Zero, 0) : h \in HierTextosArq}

\* C3: buscar_filhos_diretos(P) returns, in row order, exactly the loaded
\* records one level below P that are direct children of P: never a record
\* with P's path, never a deeper descendant, never a record of another branch,
\* and for the root exactly the depth-1 records.
C3_BuscarFilhosDiretos ==
    \A p \in Consultados :
        LET f == buscar_filhos_diretos(topicos, p)
        IN  /\ EmOrdemDeLinha(f, topicos, IndicesFilhos(topicos, p))
            /\ \A k \in 1..Len(f) :
                 /\ f[k].hierarquia # p.hierarquia
                 /\ Profundidade(f[k].hierarquia) = Profundidade(p.hierarquia) + 1
                 /\ p.hierarquia # <<>> => EstendeUmSegmento(f[k].hierarquia, p.hierarquia)
            /\ p.hierarquia = <<>> =>
                 EmOrdemDeLinha(f, topicos,
                     {j \in 1..Len(topicos) : Profundidade(topicos[j].hierarquia) = 1})

\* validar() has reported the root with its one child while the loaded set
\* also holds a grandchild of the root
C3_Witness ==
    /\ chamada.op = "validar"
    /\ \E k \in 1..Len(chamada.inconsistencias) :
          /\ chamada.inconsistencias[k].pai.hierarquia = <<>>
          /\ Len(chamada.inconsistencias[k].filhos) = 1
    /\ \E j \in 1..Len(topicos) : topicos[j].hierarquia = <<"1", ".", "1">>

\* C8: for a source that loads, validar_arquivo's result has total_topicos =
\* the number of data rows, total_questoes = the root's count (0 without a
\* root), inconsistencias = what validar() yields, and valido iff that list is
\* empty.
C8_ValidarArquivo ==
    (chamada.op = "validar_arquivo" /\ chamada.ok) =>
        LET r == chamada.resultado[1]
            R == Raizes(topicos)
        IN  /\ r.total_topicos = Len(chamada.conteudo[1])
            /\ Len(topicos) = Len(chamada.conteudo[1])
            /\ R = {} => r.total_questoes = 0
            /\ R # {} => r.total_questoes = topicos[Maximo(R)].quantidade
            /\ r.inconsistencias = validar(topicos)
            /\ valido(r) <=> Len(r.inconsistencias) = 0

C8_Witness ==
    /\ chamada.op = "validar_arquivo"
    /\ chamada.ok
    /\ chamada.resultado[1].total_topicos = 3
    /\ chamada.resultado[1].total_questoes = 1
    /\ ~valido(chamada.resultado[1])
    /\ topicos[1].quantidade = 0

\* C9: whatever the validator loaded or validated before, validar_arquivo's
\* result for a source is the result a fresh validator gives for it.
C9_SemEstadoOculto ==
    chamada.op = "validar_arquivo" =>
        chamada.resultado[1] =
            validar_arquivo(<<>>, None, chamada.caminho, chamada.conteudo).resultado

\* a result for a source of two rows, from a validator that held records
\* before the call
C9_Witness ==
    /\ chamada.op = "validar_arquivo"
    /\ chamada.reusado
    /\ chamada.ok
    /\ chamada.resultado[1].total_topicos = 2

LinhaCurta(linha) ==
    linha.Hierarquia = None \/ linha.Quantidade = None \/ linha.Porcentagem = None

\* the source of the last call could not be loaded: no file at the path, or a
\* row that makes the read raise
FonteIlegivel ==
    \/ chamada.conteudo = None
    \/ \E i \in 1..Len(chamada.conteudo[1]) : LinhaCurta(chamada.conteudo[1][i])

\* C11: for a source that cannot be loaded, carregar_csv returns False and
\* validar_arquivo returns a result with total_topicos = 0, total_questoes = 0
\* and no inconsistencias.
C11_FalhaDeCarga ==
    (chamada.op \in {"carregar_csv", "validar_arquivo"} /\ FonteIlegivel) =>
        /\ ~chamada.ok
        /\ chamada.op = "validar_arquivo" =>
             /\ chamada.resultado # None
             /\ chamada.resultado[1].total_topicos = 0
             /\ chamada.resultado[1].total_questoes = 0
             /\ chamada.resultado[1].inconsistencias = <<>>

\* validar_arquivo on a file whose third row is short, after a root with
\* count 1 and a child with count 0 were already stored
C11_Witness ==
    /\ chamada.op = "validar_arquivo"
    /\ chamada.conteudo # None
    /\ Len(chamada.conteudo[1]) = 3
    /\ LinhaCurta(chamada.conteudo[1][3])
    /\ Len(topicos) = 2
    /\ total_geral # None
    /\ total_geral[1].quantidade = 1
    /\ topicos[2].quantidade = 0
    /\ chamada.resultado[1].total_topicos = 0

\* C12: no source that loads yields the result a load failure yields
\* (total_topicos = 0, total_questoes = 0, no inconsistencias, valido).
C12_SentinelaDistinta ==
    (chamada.op = "validar_arquivo" /\ chamada.ok) =>
        LET r == chamada.resultado[1]
            sentinela == ResultadoValidacao(chamada.caminho, 0, 0, <<>>)
        IN  ~ /\ r.total_topicos = sentinela.total_topicos
              /\ r.total_questoes = sentinela.total_questoes
              /\ r.inconsistencias = sentinela.inconsistencias
              /\ valido(r) = valido(sentinela)

\* C14: every readable source loads: carregar_csv returns True and holds one
\* record per data row, in row order, whatever a row contains; a row without
\* its path field gets the path "" and one without its count field the count 0.
C14_TodaLinhaCarregada ==
    (chamada.op \in {"carregar_csv", "validar_arquivo"} /\ chamada.conteudo # None) =>
        /\ chamada.ok
        /\ Len(topicos) = Len(chamada.conteudo[1])
        /\ \A i \in 1..Len(topicos) :
             /\ topicos[i].linha_csv = i + 1
             /\ chamada.conteudo[1][i].Hierarquia = None => topicos[i].hierarquia = <<>>
             /\ chamada.conteudo[1][i].Quantidade = None => topicos[i].quantidade = 0

\* C19: the loaded set holds at most one record per path.
C19_UmPorCaminho ==
    \A i \in 1..Len(topicos) : \A j \in 1..Len(topicos) :
        topicos[i].hierarquia = topicos[j].hierarquia => i = j

(***************************************************************************)
(* Vocabulary of the properties of the parsed fields                       *)
(***************************************************************************)
\* the characters of t that are none of those in fora; the texts drawn hold
\* blanks at their ends only, so this is the text the parser converts
Miolo(t, fora) == SelectSeq(t, LAMBDA c : c \notin fora)

SemSinal(u) == IF u # <<>> /\ u[1] \in {"-", "+"} THEN Tail(u) ELSE u

\* u is an integer literal: an optional sign and one digit or more
InteiroEscrito(u) ==
    /\ SemSinal(u) # <<>>
    /\ \A i \in 1..Len(SemSinal(u)) : SemSinal(u)[i] \in Digitos

\* u is a decimal literal: an optional sign, digits and at most one decimal
\* mark, with one digit at least
DecimalEscrito(u) ==
    LET d == SemSinal(u)
    IN  /\ \A i \in 1..Len(d) : d[i] \in Digitos \cup {".", ","}
        /\ Cardinality({i \in 1..Len(d) : d[i] \in {".", ","}}) <= 1
        /\ \E i \in 1..Len(d) : d[i] \in Digitos

\* C13: a row whose count text is empty or not a number is parsed with
\* quantidade = 0, one whose percentage text is empty or unparsable with
\* porcentagem = 0.0; the row is still appended and the rows after it loaded.
C13_ValorMalformado ==
    chamada.op = "carregar_csv" =>
        /\ chamada.ok
        /\ Len(topicos) = Len(arquivo)
        /\ \A i \in 1..Len(arquivo) :
             /\ i <= Len(topicos)
             /\ topicos[i].linha_csv = i + 1
             /\ ~InteiroEscrito(Miolo(arquivo[i].Quantidade[1], {",", " "})) =>
                    topicos[i].quantidade = 0
             /\ ~DecimalEscrito(Miolo(arquivo[i].Porcentagem[1], {"%", " "})) =>
                    topicos[i].porcentagem = Zero

\* a first row with junk in both columns, followed by a row that was loaded
\* with its count 10 and its percentage 50.5
C13_Witness ==
    /\ chamada.op = "carregar_csv"
    /\ arquivo[1].Quantidade = Some(<<"x">>)
    /\ arquivo[1].Porcentagem = Some(<<"1", ".", "2", ".", "3">>)
    /\ Len(topicos) = 2
    /\ topicos[1].quantidade = 0
    /\ topicos[1].porcentagem = Zero
    /\ topicos[2].quantidade = 10
    /\ topicos[2].porcentagem = Racional(101, 2)

\* C15: every record held after a load has quantidade >= 0.
C15_QuantidadeNaoNegativa ==
    \A i \in 1..Len(topicos) : topicos[i].quantidade >= 0

(***************************************************************************)
(* Percentages                                                             *)
(***************************************************************************)
\* R.quantidade / root.quantidade * 100, and 0 when root.quantidade is 0
EsperadaDeclarada(r, raiz) ==
    IF raiz.quantidade = 0 THEN [num |-> 0, den |-> 1]
    ELSE IF raiz.quantidade > 0
    THEN [num |-> r.quantidade * 100, den |-> raiz.quantidade]
    ELSE [num |-> -(r.quantidade * 100), den |-> -raiz.quantidade]

\* |expected - R.porcentagem| > tolerancia
ForaDaTolerancia(r, raiz, tolerancia) ==
    LET e == EsperadaDeclarada(r, raiz)
        p == r.porcentagem
        d == e.num * p.den - p.num * e.den
    IN  (IF d < 0 THEN -d ELSE d) * tolerancia.den > tolerancia.num * e.den * p.den

\* C16: validar_porcentagens(tolerancia) returns the empty list when there is
\* no root; otherwise it returns, in row order, exactly the records R other
\* than the root with |expected - R.porcentagem| > tolerancia, where expected
\* is R.quantidade / root.quantidade * 100, and 0 when root.quantidade is 0;
\* the root is never returned.
C16_ValidarPorcentagens ==
    chamada.op = "validar_porcentagens" =>
        IF Raizes(topicos) = {} THEN chamada.erros_pct = <<>>
        ELSE LET raiz == total_geral[1]
                 S == {i \in 1..Len(topicos) :
                          /\ topicos[i] # raiz
                          /\ ForaDaTolerancia(topicos[i], raiz, chamada.tolerancia)}
             IN  /\ EmOrdemDeLinha(chamada.erros_pct, topicos, S)
                 /\ \A k \in 1..Len(chamada.erros_pct) : chamada.erros_pct[k] # raiz

\* every record with direct children has their counts summing to its own
SomasConsistentes(tops) ==
    \A i \in 1..Len(tops) :
        LET S == IndicesFilhos(tops, tops[i])
        IN  S # {} => SomaLinhas(tops, S) = tops[i].quantidade

\* the files that differ from linhas in the percentage column only
MesmasContagens(linhas) ==
    {[i \in 1..Len(linhas) |->
         IF LinhaCurta(linhas[i]) THEN linhas[i]
         ELSE [linhas[i] EXCEPT !.Porcentagem = Some(g[i])]] :
     g \in [1..Len(linhas) -> PctTextosPct]}

\* C17: the percentage check never contributes to the verdict: for a source
\* that loads and whose parent/child sums are all consistent, validar_arquivo
\* returns valido = True and no inconsistencias whatever the percentages are,
\* and the exit status of either command-line program is the one it has for
\* the same batch with any other percentages in the file.
C17_PorcentagemForaDoVeredito ==
    /\ (chamada.op = "validar_arquivo" /\ chamada.ok /\ SomasConsistentes(topicos)) =>
           /\ valido(chamada.resultado[1])
           /\ chamada.resultado[1].inconsistencias = <<>>
    /\ chamada.op = "cli" =>
           \A outro \in MesmasContagens(arquivo) :
               chamada.status = validar_hierarquia(disco_com(outro), chamada.arquivos)
    /\ chamada.op = "script" =>
           \A outro \in MesmasContagens(arquivo) :
               chamada.status = main(disco_com(outro), chamada.arquivos)

\* validar_arquivo has just passed a file in which the root has a child, the
\* sums agree and the child's percentage is not the expected one
C17_Witness ==
    /\ chamada.op = "validar_arquivo"
    /\ chamada.ok
    /\ \E i \in 1..Len(topicos) : IndicesFilhos(topicos, topicos[i]) # {}
    /\ SomasConsistentes(topicos)
    /\ total_geral # None
    /\ \E i \in 1..Len(topicos) :
           /\ topicos[i] # total_geral[1]
           /\ ForaDaTolerancia(topicos[i], total_geral[1], [num |-> 1, den |-> 100])
    /\ valido(chamada.resultado[1])

\* the source at a path exists, every row of it is whole, and the sums of
\* the records it holds are consistent
FonteCarregadaEConsistente(caminho) ==
    /\ conteudo_de(caminho) # None
    /\ \A i \in 1..Len(arquivo) : ~LinhaCurta(arquivo[i])
    /\ SomasConsistentes(carregar_csv(<<>>, None, conteudo_de(caminho)).topicos)

\* C18: the exit status of the command-line program is 0 exactly when every
\* source of the batch was loaded and found consistent, and 1 when some source
\* had an inconsistency or failed to load.
C18_StatusDeSaida ==
    chamada.op \in {"cli", "script"} =>
        /\ chamada.status \in {0, 1}
        /\ chamada.status = 0 <=>
               \A k \in 1..Len(chamada.arquivos) :
                   FonteCarregadaEConsistente(chamada.arquivos[k])

(***************************************************************************)
(* The list that was handed out                                            *)
(***************************************************************************)
\* C20: once a load completes, the collection obtained from it, through the
\* topicos property or held by an AnalisadorDados, keeps the contents it had
\* then under every later operation.
C20_IndiceNuncaMutado ==
    /\ obtido # None => topicos = obtido[1]
    /\ analisador.topicos = "validador" => topicos = analisador.carregado

(***************************************************************************)
(* Parents, children and order                                             *)
(***************************************************************************)
\* C21: buscar_filhos_diretos(P) equals, in the same order, the loaded records
\* C with C.pai == P.hierarquia; equivalently C.eh_filho_de(P) holds iff
\* C.pai == P.hierarquia.
C21_IndicePorPai ==
    chamada.op = "buscar_filhos_diretos" =>
        LET p == chamada.consultado[1]
        IN  /\ chamada.filhos =
                   SelectSeq(topicos, LAMBDA c : pai(c) = Some(p.hierarquia))
            /\ \A i \in 1..Len(topicos) :
                   eh_filho_de(topicos[i], p) <=> pai(topicos[i]) = Some(p.hierarquia)

\* C22: the inconsistencies validar() returns are in the row order of their
\* parent records, each parent being the record of its row, and the filhos of
\* each are in row order.
C22_OrdemDeLinha ==
    chamada.op = "validar" =>
        LET incs == chamada.inconsistencias
        IN  /\ \A a \in 1..Len(incs), b \in 1..Len(incs) :
                   a < b => incs[a].pai.linha_csv < incs[b].pai.linha_csv
            /\ \A k \in 1..Len(incs) :
                   /\ incs[k].pai.linha_csv - 1 \in 1..Len(topicos)
                   /\ incs[k].pai = topicos[incs[k].pai.linha_csv - 1]
                   /\ \A a \in 1..Len(incs[k].filhos), b \in 1..Len(incs[k].filhos) :
                          a < b => incs[k].filhos[a].linha_csv
                                       < incs[k].filhos[b].linha_csv

\* validar() has reported two parents, the deeper of which comes first in the
\* file
C22_Witness ==
    /\ chamada.op = "validar"
    /\ Len(chamada.inconsistencias) = 2
    /\ Profundidade(chamada.inconsistencias[1].pai.hierarquia)
           > Profundidade(chamada.inconsistencias[2].pai.hierarquia)

\* C23: two records are never direct children of one another in both
\* directions, no record is a direct child of itself, and two records at the
\* same depth are not direct children of one another in either direction.
C23_SemRelacaoMutua ==
    alg.fase = "eh_filho_de" =>
        LET a == alg.self
            b == alg.outro
        IN  /\ ~(alg.filho /\ eh_filho_de(b, a))
            /\ a.hierarquia = b.hierarquia => ~alg.filho
            /\ Profundidade(a.hierarquia) = Profundidade(b.hierarquia) =>
                   ~alg.filho /\ ~eh_filho_de(b, a)

\* eh_filho_de has answered for 1.1 and 11.1, two paths of the second level
C23_Witness ==
    /\ alg.fase = "eh_filho_de"
    /\ alg.self.hierarquia = <<"1", ".", "1">>
    /\ alg.outro.hierarquia = <<"1", "1", ".", "1">>
    /\ ~alg.filho

(***************************************************************************)
(* The analyser's ranking and tree                                         *)
(***************************************************************************)
\* the sum of the porcentagem fields of the first k items of r
RECURSIVE SomaDasPorcentagens(_, _)
SomaDasPorcentagens(r, k) ==
    IF k = 0 THEN [num |-> 0, den |-> 1]
    ELSE LET s == SomaDasPorcentagens(r, k - 1)
             p == r[k].topico.porcentagem
         IN  [num |-> s.num * p.den + p.num * s.den, den |-> s.den * p.den]

MesmoValor(a, b) == a.num * b.den = b.num * a.den

\* C24: ranking_topicos never includes the root, returns at most limite items
\* with posicao 1, 2, ... in order, lists loaded records by quantidade
\* non-increasing (non-decreasing when ordem_crescente is set), and each
\* item's percentual_acumulado is the sum of the porcentagem fields of that
\* item and of the items ranked before it.
C24_RankingTopicos ==
    chamada.op = "ranking_topicos" =>
        LET r == chamada.ranking
        IN  /\ Len(r) <= chamada.limite
            /\ \A k \in 1..Len(r) :
                   /\ r[k].topico.hierarquia # <<>>
                   /\ \E i \in 1..Len(analisador_topicos) :
                          analisador_topicos[i] = r[k].topico
                   /\ r[k].posicao = k
                   /\ MesmoValor(r[k].percentual_acumulado, SomaDasPorcentagens(r, k))
            /\ \A k \in 1..(Len(r) - 1) :
                   IF chamada.ordem_crescente
                   THEN r[k].topico.quantidade <= r[k + 1].topico.quantidade
                   ELSE r[k].topico.quantidade >= r[k + 1].topico.quantidade

\* the ranking of a set that holds the root and the two first-level topics of
\* one question each, said to be 50% and 25%: two items, the second at 75%
C24_Witness ==
    /\ chamada.op = "ranking_topicos"
    /\ \E i \in 1..Len(analisador_topicos) : analisador_topicos[i].hierarquia = <<>>
    /\ Len(chamada.ranking) = 2
    /\ chamada.ranking[1].topico.quantidade = chamada.ranking[2].topico.quantidade
    /\ chamada.ranking[2].percentual_acumulado = [num |-> 75, den |-> 1]

\* b lies below a: any non-empty path below the root, else a, a dot and more
Descendente(b, a) ==
    IF a = <<>> THEN b # <<>>
    ELSE /\ Len(b) > Len(a) + 1
         /\ \A i \in 1..Len(a) : b[i] = a[i]
         /\ b[Len(a) + 1] = "."

\* the node n carries the fields of the record t
NoDe(n, t) ==
    /\ n.hierarquia = t.hierarquia
    /\ n.quantidade = t.quantidade
    /\ n.porcentagem = t.porcentagem

\* below n, at every level, the filhos are exactly the direct children of the
\* node, in row order, each one level deeper and below the path pedido
RECURSIVE ArvoreCorreta(_, _)
ArvoreCorreta(n, pedido) ==
    LET S == IndicesFilhos(topicos, n)
    IN  /\ Len(n.filhos) = Cardinality(S)
        /\ \A k \in 1..Len(n.filhos) :
               /\ NoDe(n.filhos[k], topicos[Enesimo(S, k)])
               /\ Profundidade(n.filhos[k].hierarquia) = Profundidade(n.hierarquia) + 1
               /\ Descendente(n.filhos[k].hierarquia, pedido)
               /\ ArvoreCorreta(n.filhos[k], pedido)

\* C25: arvore_topico(path) returns {} when no record has that path, and
\* otherwise the tree of the first record with the path, in which the filhos
\* of every node are exactly that node's direct children, each one level
\* deeper than its parent and a descendant of the requested path.
C25_ArvoreTopico ==
    chamada.op = "arvore_topico" =>
        LET S == {i \in 1..Len(analisador_topicos) :
                     analisador_topicos[i].hierarquia = chamada.hierarquia}
        IN  IF S = {} THEN chamada.arvore = None
            ELSE /\ chamada.arvore # None
                 /\ NoDe(chamada.arvore[1], analisador_topicos[Minimo(S)])
                 /\ ArvoreCorreta(chamada.arvore[1], chamada.hierarquia)

\* the tree of the root holds a child that has a child of its own
C25_Witness ==
    /\ chamada.op = "arvore_topico"
    /\ chamada.hierarquia = <<>>
    /\ chamada.arvore # None
    /\ \E k \in 1..Len(chamada.arvore[1].filhos) :
           chamada.arvore[1].filhos[k].filhos # <<>>

(***************************************************************************)
(* After a load that failed                                                *)
(***************************************************************************)
\* C26: whenever carregar_csv returns False the validator holds no records
\* and no root afterwards, so that validar() and validar_porcentagens() both
\* return [].
C26_FalhaEsvazia ==
    (chamada.op = "carregar_csv" /\ ~chamada.ok) =>
        /\ topicos = <<>>
        /\ total_geral = None
        /\ validar(topicos) = <<>>
        /\ validar_porcentagens(topicos, total_geral, [num |-> 1, den |-> 100]) = <<>>

\* C27: after any sequence of carregar calls the analyser's topicos are those
\* of the last load that returned True (none before the first), a call that
\* returned False has changed nothing, and the analyser's root, when set, is
\* one of its topicos.
C27_FalhaNaoAltera ==
    /\ analisador_topicos = analisador.carregado
    /\ analisador.total_geral # None =>
           \E i \in 1..Len(analisador_topicos) :
               analisador_topicos[i] = analisador.total_geral[1]

(***************************************************************************)
(* Sums over the tree, orphans, and the script's validator                 *)
(***************************************************************************)
\* the rows of the records with no direct children
Folhas(tops) == {i \in 1..Len(tops) : IndicesFilhos(tops, tops[i]) = {}}

\* the rows of the leaves of the subtree of the record at row i
RECURSIVE FolhasSob(_, _)
FolhasSob(tops, i) ==
    LET S == IndicesFilhos(tops, tops[i])
    IN  IF S = {} THEN {i} ELSE UNION {FolhasSob(tops, j) : j \in S}

\* unique paths, exactly one root, and the pai of every other record loaded
ArvoreCompleta(tops) ==
    /\ \A i \in 1..Len(tops), j \in 1..Len(tops) :
           tops[i].hierarquia = tops[j].hierarquia => i = j
    /\ Cardinality(Raizes(tops)) = 1
    /\ \A i \in 1..Len(tops) :
           tops[i].hierarquia # <<>> =>
               \E j \in 1..Len(tops) : pai(tops[i]) = Some(tops[j].hierarquia)

\* C28: for a loaded set with unique paths, exactly one root and the pai of
\* every non-root record loaded, if validar() returns no inconsistencies then
\* the root's quantidade is the sum of quantidade over all leaf records, and
\* every record's quantidade is the sum over the leaves of its subtree.
C28_SomaDasFolhas ==
    (chamada.op = "validar" /\ chamada.inconsistencias = <<>> /\ ArvoreCompleta(topicos)) =>
        /\ topicos[Minimo(Raizes(topicos))].quantidade
               = SomaLinhas(topicos, Folhas(topicos))
        /\ \A i \in 1..Len(topicos) :
               topicos[i].quantidade = SomaLinhas(topicos, FolhasSob(topicos, i))

\* the record at row i has a parent path that no loaded record has
Orfao(tops, i) ==
    /\ pai(tops[i]) # None
    /\ \A j \in 1..Len(tops) : tops[j].hierarquia # pai(tops[i])[1]

\* tops without its i-th record
SemLinha(tops, i) == SubSeq(tops, 1, i - 1) \o SubSeq(tops, i + 1, Len(tops))

\* counts tried on the orphan
QuantidadesOrfao == {0, 5}

\* C29: an orphan with no direct children of its own never influences
\* validation: validar() returns the same inconsistencies without that record
\* in the loaded set, and with any other quantidade in it.
C29_OrfaoSemEfeito ==
    chamada.op = "validar" =>
        \A i \in 1..Len(topicos) :
            (Orfao(topicos, i) /\ IndicesFilhos(topicos, topicos[i]) = {}) =>
                /\ validar(SemLinha(topicos, i)) = chamada.inconsistencias
                /\ \A q \in QuantidadesOrfao :
                       validar([topicos EXCEPT ![i].quantidade = q])
                           = chamada.inconsistencias

\* validar() has reported a parent of a set that also holds a childless orphan
C29_Witness ==
    /\ chamada.op = "validar"
    /\ chamada.inconsistencias # <<>>
    /\ \E i \in 1..Len(topicos) :
           Orfao(topicos, i) /\ IndicesFilhos(topicos, topicos[i]) = {}

\* C30: the script's buscar_filhos_diretos returns the records the package's
\* returns, in the same order, for every loaded record P, and on a non-empty
\* set the script's validar() is True exactly when the package's validar()
\* returns an empty list.
C30_ScriptIgualAoPacote ==
    /\ chamada.op = "script_buscar_filhos_diretos" =>
           chamada.filhos = buscar_filhos_diretos(topicos, chamada.consultado[1])
    /\ (chamada.op = "script_validar" /\ topicos # <<>>) =>
           (chamada.ok <=> validar(topicos) = <<>>)

\* the script was asked for the children of the root of a set that holds a
\* second-level record as well, and returned one record
C30_Witness ==
    /\ chamada.op = "script_buscar_filhos_diretos"
    /\ chamada.consultado[1].hierarquia = <<>>
    /\ \E i \in 1..Len(topicos) : Profundidade(topicos[i].hierarquia) = 2
    /\ Len(chamada.filhos) = 1

====
